---- MODULE Spec2Model ----
(***************************************************************************)
(* The FileDropZone widget of dropit-react (src/components/               *)
(* file-drop-zone.tsx) together with its two hosts: FilePickerDemo, which  *)
(* copies every reported selection into its own state, and App, which also *)
(* previews the first file of the selection when it is an image.           *)
(*                                                                         *)
(* JavaScript strings are modelled as sequences of one-character strings,  *)
(* JavaScript arrays as sequences (index i of the array is element i + 1   *)
(* of the sequence).                                                       *)
(***************************************************************************)
EXTENDS Integers, Sequences, FiniteSets, TLC

VARIABLES
    acceptedFileTypes, \* prop: array of pattern strings
    maxFiles,          \* prop: integer
    files,             \* useState<File[]>([]) of FileDropZone
    isDragging,        \* useState(false) of FileDropZone
    rendered,          \* the files the handlers of the last render closed over
    host,              \* the component the widget is mounted in: "FilePickerDemo" or "App"
    hostFiles,         \* useState<File[]>([]) of the host
    imagePreview,      \* useState<string | null>(null) of App: the file whose data URL it is
    pendingReads,      \* FileReaders of App between readAsDataURL and onload
    prev,              \* history: value of files before the last event
    event,             \* history: the last event handled, its inputs, the drag state before it
    reported,          \* history: arguments onFilesSelected got during the last event
    probe              \* a single evaluation of the accept filter on one file

vars == <<acceptedFileTypes, maxFiles, files, isDragging, rendered, host, hostFiles, imagePreview,
          pendingReads, prev, event, reported, probe>>

----------------------------------------------------------------------------
(* Bounds *)

\* longest file batch one dialog confirmation or one drop delivers
MaxBatch == 2
\* largest value of the maxFiles prop
MaxMaxFiles == 3
\* longest pattern, file name and MIME type of the filter probe
MaxLen == 2
\* most FileReaders App has under way at once
MaxPendingReads == 2

----------------------------------------------------------------------------
(* JavaScript built-ins used by the component *)

Min(a, b) == IF a < b THEN a ELSE b
Max(a, b) == IF a > b THEN a ELSE b

\* Array.prototype.slice(0, end): a negative end counts from the end of the array
SliceFromStart(arr, end) ==
    LET n == Len(arr)
        final == IF end < 0 THEN Max(n + end, 0) ELSE Min(end, n)
    IN  SubSeq(arr, 1, final)

\* SpliceOne without its delete count: splice(start) removes everything from start on
SpliceToEnd(arr, start) ==
    LET n == Len(arr)
        actualStart == IF start < 0 THEN Max(n + start, 0) ELSE Min(start, n)
    IN  SubSeq(arr, 1, actualStart)

\* the array after Array.prototype.splice(start, 1): a negative start counts from
\* the end, a start past the end removes nothing
SpliceOne(arr, start) ==
    LET n == Len(arr)
        actualStart == IF start < 0 THEN Max(n + start, 0) ELSE Min(start, n)
        deleteCount == Min(1, n - actualStart)
    IN  SubSeq(arr, 1, actualStart) \o SubSeq(arr, actualStart + deleteCount + 1, n)

\* String.prototype.includes(part)
Includes(str, part) ==
    \E k \in 0..(Len(str) - Len(part)) : SubSeq(str, k + 1, k + Len(part)) = part

\* String.prototype.endsWith(suffix)
EndsWith(str, suffix) ==
    /\ Len(suffix) <= Len(str)
    /\ SubSeq(str, Len(str) - Len(suffix) + 1, Len(str)) = suffix

\* String.prototype.startsWith(prefix)
StartsWith(str, prefix) ==
    /\ Len(prefix) <= Len(str)
    /\ SubSeq(str, 1, Len(prefix)) = prefix

\* ReplaceStar removing every "*", as replace(/\*/g, "") would
ReplaceEveryStar(type) == SelectSeq(type, LAMBDA c : c # "*")

\* String.prototype.replace("*", ""): a string pattern replaces its first occurrence only
ReplaceStar(type) ==
    IF \E k \in 1..Len(type) : type[k] = "*"
    THEN LET first == CHOOSE k \in 1..Len(type) :
                          /\ type[k] = "*"
                          /\ \A j \in 1..(k - 1) : type[j] # "*"
         IN  SubSeq(type, 1, first - 1) \o SubSeq(type, first + 1, Len(type))
    ELSE type

----------------------------------------------------------------------------
(* handleFileChange, as pure functions of what it reads *)

\* Matches testing the first pattern only
MatchesFirstTypeOnly(name, type, types) ==
    /\ Len(types) >= 1
    /\ \/ Includes(type, ReplaceStar(types[1]))
       \/ EndsWith(name, ReplaceStar(types[1]))

\* the predicate of newFiles.filter: some pattern, its "*" removed, is contained in
\* the MIME type or ends the name
Matches(name, type, types) ==
    \E i \in 1..Len(types) :
        \/ Includes(type, ReplaceStar(types[i]))
        \/ EndsWith(name, ReplaceStar(types[i]))

\* whether a file survives the filtering of a batch: an empty acceptedFileTypes
\* filters nothing
Accepts(name, type, types) ==
    IF Len(types) # 0 THEN Matches(name, type, types) ELSE TRUE

\* File objects are held by reference; each exposes a name and a MIME type
Files == {"Png", "Jpg", "Pdf"}

FileName(file) ==
    CASE file = "Png" -> <<"x", ".", "p", "n", "g">>
      [] file = "Jpg" -> <<"y", ".", "j", "p", "g">>
      [] file = "Pdf" -> <<"d", ".", "p", "d", "f">>

FileType(file) ==
    CASE file = "Png" -> <<"i", "m", "a", "g", "e", "/", "p", "n", "g">>
      [] file = "Jpg" -> <<"i", "m", "a", "g", "e", "/", "j", "p", "e", "g">>
      [] file = "Pdf" -> <<"a", "p", "p", "l", "i", "c", "a", "t", "i", "o", "n", "/", "p", "d", "f">>

\* the acceptedFileTypes props the widget is mounted with
DotPng == <<".", "p", "n", "g">>
DotPdf == <<".", "p", "d", "f">>
StarDotJpg == <<"*", ".", "j", "p", "g">>
ImageStar == <<"i", "m", "a", "g", "e", "/", "*">>

FilterChoices == {<<>>, <<DotPng>>, <<DotPng, DotPdf>>, <<ImageStar>>, <<StarDotJpg>>}

\* the props App mounts the widget with, and the prefix it tests the MIME type for
DotJpg == <<".", "j", "p", "g">>
DotJpeg == <<".", "j", "p", "e", "g">>
DotGif == <<".", "g", "i", "f">>
AppAcceptedFileTypes == <<DotPng, DotJpg, DotJpeg, DotGif>>
AppMaxFiles == 3
ImageSlash == <<"i", "m", "a", "g", "e", "/">>

\* the verdict of that predicate on each file, under each filter a widget is mounted with
SomeTypeMatches ==
    [types \in FilterChoices \cup {AppAcceptedFileTypes} |->
        [file \in Files |-> Matches(FileName(file), FileType(file), types)]]

\* ValidFiles without the filtering
ValidFilesUnfiltered(newFiles, types) == newFiles

ValidFiles(newFiles, types) ==
    LET Keep(file) == SomeTypeMatches[types][file]
    IN  IF Len(types) # 0 THEN SelectSeq(newFiles, Keep) ELSE newFiles

\* UpdatedFiles keeping the newest files when the cap is exceeded
UpdatedFilesKeepsNewest(current, validFiles, max) ==
    IF max > 1
    THEN LET all == current \o validFiles
         IN  SubSeq(all, Max(Len(all) - max, 0) + 1, Len(all))
    ELSE SliceFromStart(validFiles, max)

\* UpdatedFiles keeping the existing files when the batch holds no valid file
UpdatedFilesKeepsWhenNoneValid(current, validFiles, max) ==
    IF validFiles = <<>> THEN current
    ELSE IF max > 1
         THEN SliceFromStart(current \o validFiles, max)
         ELSE SliceFromStart(validFiles, max)

\* UpdatedFiles without the cap in multiple file mode
UpdatedFilesUncapped(current, validFiles, max) ==
    IF max > 1
    THEN current \o validFiles
    ELSE SliceFromStart(validFiles, max)

\* UpdatedFiles adding to the existing files in single file mode too
UpdatedFilesAlwaysAdds(current, validFiles, max) ==
    IF max >= 1
    THEN SliceFromStart(current \o validFiles, max)
    ELSE SliceFromStart(validFiles, max)

\* UpdatedFiles putting the new files in front of the existing ones
UpdatedFilesNewFirst(current, validFiles, max) ==
    IF max > 1
    THEN SliceFromStart(validFiles \o current, max)
    ELSE SliceFromStart(validFiles, max)

UpdatedFiles(current, validFiles, max) ==
    IF max > 1
    THEN SliceFromStart(current \o validFiles, max)
    ELSE SliceFromStart(validFiles, max)

----------------------------------------------------------------------------
(* The props a host can mount the widget with, and the batches a user can offer *)

MaxFilesChoices == (-1)..MaxMaxFiles

\* a FileList holds each File object once
DistinctSeqsUpTo(S, n) ==
    {s \in UNION {[1..k -> S] : k \in 0..n} : \A i, j \in 1..Len(s) : s[i] = s[j] => i = j}

\* FileList | null
NullList == [isNull |-> TRUE, items |-> <<>>]
FileList(items) == [isNull |-> FALSE, items |-> items]
Batches == {NullList} \cup {FileList(items) : items \in DistinctSeqsUpTo(Files, MaxBatch)}

NoProbe == [done |-> FALSE, name |-> <<>>, type |-> <<>>, types |-> <<>>, accepted |-> FALSE]

\* the event being handled, its inputs, and the drag state it found
Event(op, selectedFiles, index) ==
    [op |-> op, selectedFiles |-> selectedFiles, index |-> index, wasDragging |-> isDragging]

----------------------------------------------------------------------------
(* The hosts: FilePickerDemo copies the reported selection; App copies it and
   previews its first file when that is an image *)

\* null of imagePreview
NoPreview == "null"

\* handleFilesSelected of FilePickerDemo
DemoHandleFilesSelected(selectedFiles) ==
    /\ hostFiles' = selectedFiles
    /\ UNCHANGED <<imagePreview, pendingReads>>

\* handleFilesSelected of App: a FileReader is created and started for an image,
\* its onload fires later (ReaderLoad)
AppHandleFilesSelected(selectedFiles) ==
    /\ hostFiles' = selectedFiles
    /\ IF Len(selectedFiles) > 0 /\ StartsWith(FileType(selectedFiles[1]), ImageSlash)
       THEN /\ Len(pendingReads) < MaxPendingReads
            /\ pendingReads' = Append(pendingReads, selectedFiles[1])
            /\ UNCHANGED imagePreview
       ELSE /\ imagePreview' = NoPreview
            /\ UNCHANGED pendingReads

\* the onFilesSelected prop, called once
OnFilesSelected(selectedFiles) ==
    /\ reported' = <<selectedFiles>>
    /\ IF host = "App"
       THEN AppHandleFilesSelected(selectedFiles)
       ELSE DemoHandleFilesSelected(selectedFiles)

\* a handler that returns without calling onFilesSelected
NotCalled ==
    /\ reported' = <<>>
    /\ UNCHANGED <<hostFiles, imagePreview, pendingReads>>

\* reader.onload of one of the FileReaders under way; reads end in any order
ReaderLoad ==
    \E i \in 1..Len(pendingReads) :
        /\ imagePreview' = pendingReads[i]
        /\ pendingReads' = SubSeq(pendingReads, 1, i - 1)
                               \o SubSeq(pendingReads, i + 1, Len(pendingReads))
        /\ prev' = files
        /\ event' = Event("load", NullList, i - 1)
        /\ reported' = <<>>
        /\ UNCHANGED <<acceptedFileTypes, maxFiles, host, files, isDragging, rendered,
                       hostFiles, probe>>

----------------------------------------------------------------------------
(* The component.  A handler reads the files of the render that created it
   (rendered); setFiles(x) makes x the files of the next render. *)

Init ==
    /\ acceptedFileTypes \in FilterChoices
    /\ maxFiles \in MaxFilesChoices
    /\ files = <<>>
    /\ isDragging = FALSE
    /\ rendered = <<>>
    /\ host = "FilePickerDemo"
    /\ hostFiles = <<>>
    /\ imagePreview = NoPreview
    /\ pendingReads = <<>>
    /\ prev = <<>>
    /\ event = Event("mount", NullList, 0)
    /\ reported = <<>>
    /\ probe = NoProbe

\* HandleFileChange treating a null FileList as an empty one
HandleFileChangeNullAsEmpty(op, selectedFiles, dragging) ==
    /\ prev' = files
    /\ event' = Event(op, selectedFiles, 0)
    /\ isDragging' = dragging
    /\ LET newFiles == selectedFiles.items
           validFiles == ValidFiles(newFiles, acceptedFileTypes)
           updatedFiles == UpdatedFiles(rendered, validFiles, maxFiles)
       IN  /\ files' = updatedFiles
           /\ OnFilesSelected(updatedFiles)
    /\ UNCHANGED <<acceptedFileTypes, maxFiles, host, probe>>

\* handleFileChange(selectedFiles); dragging is the value isDragging has when the
\* handler returns
HandleFileChange(op, selectedFiles, dragging) ==
    /\ prev' = files
    /\ event' = Event(op, selectedFiles, 0)
    /\ isDragging' = dragging
    /\ IF selectedFiles.isNull
       THEN /\ NotCalled
            /\ UNCHANGED files
       ELSE LET newFiles == selectedFiles.items
                validFiles == ValidFiles(newFiles, acceptedFileTypes)
                updatedFiles == UpdatedFiles(rendered, validFiles, maxFiles)
            IN  /\ files' = updatedFiles
                /\ OnFilesSelected(updatedFiles)
    /\ UNCHANGED <<acceptedFileTypes, maxFiles, host, probe>>

\* onChange of the hidden file input
InputChange(selectedFiles) == HandleFileChange("change", selectedFiles, isDragging)

\* handleDragLeave emptying the selection as well
HandleDragLeaveClears ==
    /\ isDragging' = FALSE
    /\ files' = <<>>
    /\ prev' = files
    /\ event' = Event("dragLeave", NullList, 0)
    /\ NotCalled
    /\ UNCHANGED <<acceptedFileTypes, maxFiles, host, probe>>

HandleDragOver ==
    /\ isDragging' = TRUE
    /\ prev' = files
    /\ event' = Event("dragOver", NullList, 0)
    /\ NotCalled
    /\ UNCHANGED <<acceptedFileTypes, maxFiles, host, files, probe>>

HandleDragLeave ==
    /\ isDragging' = FALSE
    /\ prev' = files
    /\ event' = Event("dragLeave", NullList, 0)
    /\ NotCalled
    /\ UNCHANGED <<acceptedFileTypes, maxFiles, host, files, probe>>

\* handleDrop without its setIsDragging(false)
HandleDropKeepsHovering(selectedFiles) == HandleFileChange("drop", selectedFiles, isDragging)

\* handleDrop ignoring a drop that no dragOver announced
HandleDropOnlyWhenHovering(selectedFiles) ==
    IF isDragging
    THEN HandleFileChange("drop", selectedFiles, FALSE)
    ELSE /\ prev' = files
         /\ event' = Event("drop", selectedFiles, 0)
         /\ NotCalled
         /\ UNCHANGED <<acceptedFileTypes, maxFiles, host, files, isDragging, probe>>

HandleDrop(selectedFiles) == HandleFileChange("drop", selectedFiles, FALSE)

OpenFileDialog ==
    /\ prev' = files
    /\ event' = Event("openFileDialog", NullList, 0)
    /\ NotCalled
    /\ UNCHANGED <<acceptedFileTypes, maxFiles, host, files, isDragging, probe>>

\* removeFile without its onFilesSelected(newFiles)
RemoveFileUnreported(index) ==
    /\ files' = SpliceOne(rendered, index)
    /\ NotCalled
    /\ prev' = files
    /\ event' = Event("remove", NullList, index)
    /\ UNCHANGED <<acceptedFileTypes, maxFiles, host, isDragging, probe>>

RemoveFile(index) ==
    LET newFiles == SpliceOne(rendered, index)
    IN  /\ files' = newFiles
        /\ OnFilesSelected(newFiles)
        /\ prev' = files
        /\ event' = Event("remove", NullList, index)
        /\ UNCHANGED <<acceptedFileTypes, maxFiles, host, isDragging, probe>>

----------------------------------------------------------------------------
(* The events of a browser.  Each is dispatched alone: React renders the state
   updates of its handler before the next event is dispatched, and the render
   gives every handler the new files. *)

Rerender == rendered' = files'

Change == \E selectedFiles \in Batches : InputChange(selectedFiles) /\ Rerender

Drop == \E selectedFiles \in Batches : HandleDrop(selectedFiles) /\ Rerender

DragOver == HandleDragOver /\ Rerender

DragLeave == HandleDragLeave /\ Rerender

\* a click on the zone or on its button sets no state
ClickZone == OpenFileDialog /\ UNCHANGED rendered

\* the remove buttons the component renders: one per rendered file
ClickRemove == \E index \in 0..(Len(rendered) - 1) : RemoveFile(index) /\ Rerender

Next ==
    \/ Change
    \/ Drop
    \/ DragOver
    \/ DragLeave
    \/ ClickZone
    \/ ClickRemove

Spec == Init /\ [][Next]_vars

----------------------------------------------------------------------------
(* removeFile called with any integer, not only the index of a rendered button *)

IndexRange == (-(MaxMaxFiles + 1))..(MaxMaxFiles + 1)

RemoveAnyIndex == \E index \in IndexRange : RemoveFile(index) /\ Rerender

NextRemove ==
    \/ Change
    \/ Drop
    \/ RemoveAnyIndex

SpecRemove == Init /\ [][NextRemove]_vars

----------------------------------------------------------------------------
(* Events handled inside one React batch (a test's act(), or events dispatched
   from code React is already batching): the handlers run one after another and
   the component renders once, when the batch ends *)

ChangeInBatch == \E selectedFiles \in Batches : InputChange(selectedFiles) /\ UNCHANGED rendered

DropInBatch == \E selectedFiles \in Batches : HandleDrop(selectedFiles) /\ UNCHANGED rendered

ClickRemoveInBatch ==
    \E index \in 0..(Len(rendered) - 1) : RemoveFile(index) /\ UNCHANGED rendered

EndBatch ==
    /\ rendered # files
    /\ rendered' = files
    /\ prev' = files
    /\ event' = Event("render", NullList, 0)
    /\ NotCalled
    /\ UNCHANGED <<acceptedFileTypes, maxFiles, host, files, isDragging, probe>>

NextBatched ==
    \/ ChangeInBatch
    \/ DropInBatch
    \/ ClickRemoveInBatch
    \/ EndBatch

SpecBatched == Init /\ [][NextBatched]_vars

----------------------------------------------------------------------------
(* The widget mounted in App *)

InitApp ==
    /\ acceptedFileTypes = AppAcceptedFileTypes
    /\ maxFiles = AppMaxFiles
    /\ files = <<>>
    /\ isDragging = FALSE
    /\ rendered = <<>>
    /\ host = "App"
    /\ hostFiles = <<>>
    /\ imagePreview = NoPreview
    /\ pendingReads = <<>>
    /\ prev = <<>>
    /\ event = Event("mount", NullList, 0)
    /\ reported = <<>>
    /\ probe = NoProbe

NextApp ==
    \/ Change
    \/ Drop
    \/ DragOver
    \/ DragLeave
    \/ ClickZone
    \/ ClickRemove
    \/ ReaderLoad

SpecApp == InitApp /\ [][NextApp]_vars

----------------------------------------------------------------------------
(* The accept filter applied to one file, for every short name, MIME type and
   filter of at most two patterns *)

NameChars == {"a", "A"}
PatternChars == {"a", "A", "*"}

Strings(chars) == UNION {[1..k -> chars] : k \in 0..MaxLen}

ProbeFilters ==
    {<<>>} \cup {<<p>> : p \in Strings(PatternChars)}
           \cup {<<p, q>> : p \in Strings(PatternChars), q \in Strings(PatternChars)}

InitFilter ==
    /\ acceptedFileTypes = <<>>
    /\ maxFiles = 1
    /\ files = <<>>
    /\ isDragging = FALSE
    /\ rendered = <<>>
    /\ host = "FilePickerDemo"
    /\ hostFiles = <<>>
    /\ imagePreview = NoPreview
    /\ pendingReads = <<>>
    /\ prev = <<>>
    /\ event = Event("mount", NullList, 0)
    /\ reported = <<>>
    /\ probe \in [done : {FALSE}, name : Strings(NameChars), type : Strings(NameChars),
                  types : ProbeFilters, accepted : {FALSE}]

FilterOne ==
    /\ ~probe.done
    /\ probe' = [probe EXCEPT !.done = TRUE,
                              !.accepted = Accepts(probe.name, probe.type, probe.types)]
    /\ UNCHANGED <<acceptedFileTypes, maxFiles, files, isDragging, rendered, host, hostFiles,
                   imagePreview, pendingReads, prev, event, reported>>

SpecFilter == InitFilter /\ [][FilterOne]_vars

----------------------------------------------------------------------------
(* Vocabulary of the claims *)

\* the last event delivered a file batch (null or not) to handleFileChange
BatchEvent == event.op \in {"change", "drop"}

\* the last event ran a reconciliation: a batch that was not null
Reconciled == BatchEvent /\ ~event.selectedFiles.isNull

Offered == event.selectedFiles.items

\* the file passes the filter the widget is mounted with
Accepted(file) == Accepts(FileName(file), FileType(file), acceptedFileTypes)

\* positions of the offered batch whose file passes the filter
AcceptedAt == {i \in 1..Len(Offered) : Accepted(Offered[i])}

\* the k-th accepted file of the offered batch, in offered order
NthAccepted(k) ==
    Offered[CHOOSE i \in AcceptedAt : Cardinality({j \in AcceptedAt : j <= i}) = k]

----------------------------------------------------------------------------
(* C1: with maxFiles >= 1 the selection never holds more than maxFiles files,
   and no list passed to onFilesSelected does *)
SelectionWithinMaxFiles ==
    maxFiles >= 1 =>
        /\ Len(files) <= maxFiles
        /\ \A i \in 1..Len(reported) : Len(reported[i]) <= maxFiles

\* a batch that would overflow the selection was cut to exactly maxFiles
SelectionWithinMaxFilesWitness ==
    /\ Reconciled
    /\ maxFiles > 1
    /\ Len(prev) >= 1
    /\ Len(prev) + Cardinality(AcceptedAt) > maxFiles
    /\ Len(files) = maxFiles
    /\ reported = <<files>>

(* C2: with maxFiles = 1 the selection after a batch is the first accepted file
   of the batch alone (empty when the batch has none), whatever was selected
   before *)
SingleModeReplaces ==
    (Reconciled /\ maxFiles = 1) =>
        files = IF AcceptedAt = {} THEN <<>> ELSE <<NthAccepted(1)>>

\* a selected file was replaced by the second file of a batch whose first file
\* the filter rejected
SingleModeReplacesWitness ==
    /\ Reconciled
    /\ maxFiles = 1
    /\ Len(prev) = 1
    /\ Len(Offered) = 2
    /\ AcceptedAt = {2}
    /\ prev[1] # Offered[2]
    /\ files = <<Offered[2]>>

(* C3: with maxFiles = m > 1 the selection after a batch is the first m elements
   of the prior selection followed by the accepted files of the batch, in
   offered order *)
MultiModeAppendsThenTruncates ==
    (Reconciled /\ maxFiles > 1) =>
        /\ Len(files) = Min(maxFiles, Len(prev) + Cardinality(AcceptedAt))
        /\ \A i \in 1..Len(files) :
               files[i] = IF i <= Len(prev) THEN prev[i] ELSE NthAccepted(i - Len(prev))

\* maxFiles = 3, filter [".png"], x.png selected, [y.jpg, x.png] offered:
\* the selection becomes [x.png, x.png]
MultiModeAppendsThenTruncatesWitness ==
    /\ Reconciled
    /\ maxFiles = 3
    /\ acceptedFileTypes = <<DotPng>>
    /\ prev = <<"Png">>
    /\ Offered = <<"Jpg", "Png">>
    /\ files = <<"Png", "Png">>

(* C4: every file of the selection passes the accept filter (an empty filter
   passes every file) *)
SelectionPassesFilter ==
    \A i \in 1..Len(files) : Accepted(files[i])

\* a batch holding a rejected file was reconciled under a non-empty filter and
\* left a non-empty selection
SelectionPassesFilterWitness ==
    /\ Reconciled
    /\ acceptedFileTypes # <<>>
    /\ \E i \in 1..Len(Offered) : ~Accepted(Offered[i])
    /\ files # <<>>
    /\ Len(files) > Len(prev)

----------------------------------------------------------------------------
(* Substring vocabulary of the filter claims *)

\* part occurs somewhere in str
ContainedIn(part, str) == \E i, j \in 0..Len(str) : i <= j /\ SubSeq(str, i + 1, j) = part

\* str ends with part
IsSuffixOf(part, str) == \E i \in 0..Len(str) : SubSeq(str, i + 1, Len(str)) = part

Stars(pattern) == {k \in 1..Len(pattern) : pattern[k] = "*"}

\* the pattern without its leftmost "*", wherever that is
WithoutFirstStar(pattern) ==
    IF Stars(pattern) = {} THEN pattern
    ELSE LET k == CHOOSE m \in Stars(pattern) : \A n \in Stars(pattern) : m <= n
         IN  [i \in 1..(Len(pattern) - 1) |-> IF i < k THEN pattern[i] ELSE pattern[i + 1]]

\* the pattern without a "*" that ends it
WithoutTrailingStar(pattern) ==
    IF Len(pattern) > 0 /\ pattern[Len(pattern)] = "*"
    THEN [i \in 1..(Len(pattern) - 1) |-> pattern[i]]
    ELSE pattern

\* the filter is empty, or one of its patterns, given as stripped, is contained
\* in the MIME type or is a suffix of the name
AcceptedWhenStrippedTo(stripped) ==
    \/ probe.types = <<>>
    \/ \E i \in 1..Len(stripped) :
           \/ ContainedIn(stripped[i], probe.type)
           \/ IsSuffixOf(stripped[i], probe.name)

(* C5, as stated: a file is accepted iff the filter is empty or some pattern,
   with only a trailing "*" removed, is contained in the MIME type or is a
   suffix of the name *)
AcceptedIffTrailingStarStripped ==
    probe.done =>
        (probe.accepted <=> AcceptedWhenStrippedTo(
            [i \in 1..Len(probe.types) |-> WithoutTrailingStar(probe.types[i])]))

(* C5, amended: a file is accepted iff the filter is empty or some pattern, with
   its first "*" removed wherever it occurs, is contained in the MIME type or is
   a suffix of the name; matching is case-sensitive *)
AcceptedIffFirstStarStripped ==
    probe.done =>
        (probe.accepted <=> AcceptedWhenStrippedTo(
            [i \in 1..Len(probe.types) |-> WithoutFirstStar(probe.types[i])]))

\* the pattern "*a" accepted a file named "a" with an empty MIME type
AcceptedIffFirstStarStrippedWitness ==
    /\ probe.done
    /\ probe.types = << <<"*", "a">> >>
    /\ probe.name = <<"a">>
    /\ probe.type = <<>>
    /\ probe.accepted

----------------------------------------------------------------------------
(* C6: every removal the widget performs shrinks the selection by exactly one
   element and keeps the others in their order *)
RemovalDropsExactlyOne ==
    event.op = "remove" =>
        /\ Len(files) = Len(prev) - 1
        /\ \A i \in 1..Len(files) :
               files[i] = IF i <= event.index THEN prev[i] ELSE prev[i + 1]

\* the middle one of three selected files was removed
RemovalDropsExactlyOneWitness ==
    /\ event.op = "remove"
    /\ Len(prev) = 3
    /\ event.index = 1
    /\ files = <<prev[1], prev[3]>>

----------------------------------------------------------------------------
(* C8: every reconciliation and every removal invokes onFilesSelected exactly
   once, with the full selection the widget stores; a host that copies the
   argument always holds the widget's selection *)
CallbackGetsFullSelection ==
    /\ (Reconciled \/ event.op = "remove") => reported = <<files>>
    /\ hostFiles = files

\* a batch was appended to a non-empty selection and the whole selection, not
\* the added files, was reported and copied by the host
CallbackGetsFullSelectionWitness ==
    /\ Reconciled
    /\ Len(prev) >= 1
    /\ Len(files) > Len(prev)
    /\ reported = <<files>>
    /\ hostFiles = files

\* the selection the batch of the last event leads to from the prior selection
Reconciliation == UpdatedFiles(prev, ValidFiles(Offered, acceptedFileTypes), maxFiles)

(* C9: the drag state starts Idle, is Hovering after every dragOver and Idle
   after every dragLeave and every drop, and a drop reconciles the batch of its
   payload *)
DragGateTransitions ==
    /\ event.op = "mount" => ~isDragging
    /\ event.op = "dragOver" => isDragging
    /\ event.op = "dragLeave" => ~isDragging
    /\ event.op = "drop" => ~isDragging
    /\ (event.op = "drop" /\ ~event.selectedFiles.isNull) =>
           (files = Reconciliation /\ reported = <<files>>)

\* a drop while Hovering changed the selection and left the drag state Idle
DragGateTransitionsWitness ==
    /\ event.op = "drop"
    /\ event.wasDragging
    /\ ~isDragging
    /\ files # prev

(* C10, as stated: with maxFiles >= 1, a drop or a dragLeave received while the
   drag state is Idle changes neither the drag state nor the selection and
   invokes no callback *)
IdleDragEventsAreNoOps ==
    (maxFiles >= 1 /\ event.op \in {"drop", "dragLeave"} /\ ~event.wasDragging) =>
        /\ ~isDragging
        /\ files = prev
        /\ reported = <<>>

(* C10, amended: a dragLeave received while Idle changes nothing; a drop
   received while Idle leaves the drag state Idle but its batch is reconciled
   like any other, and a batch that is not null is reported to onFilesSelected *)
IdleDropIsReconciled ==
    /\ (event.op = "dragLeave" /\ ~event.wasDragging) =>
           (~isDragging /\ files = prev /\ reported = <<>> /\ hostFiles = files)
    /\ (event.op = "drop" /\ ~event.wasDragging) =>
           /\ ~isDragging
           /\ IF event.selectedFiles.isNull
              THEN files = prev /\ reported = <<>>
              ELSE files = Reconciliation /\ reported = <<files>>

\* a drop received while Idle changed the selection
IdleDropIsReconciledWitness ==
    /\ event.op = "drop"
    /\ ~event.wasDragging
    /\ ~isDragging
    /\ files # prev
    /\ reported = <<files>>

----------------------------------------------------------------------------
(* C11: the selection is empty at mount and changes only in a reconciliation or
   a removal; dragOver, dragLeave and opening the dialog leave it unchanged and
   invoke no callback; a reconciliation gives the same result whatever the drag
   state is *)
OnlyBatchesAndRemovalsChangeSelection ==
    /\ event.op = "mount" => (files = <<>> /\ reported = <<>>)
    /\ event.op \in {"dragOver", "dragLeave", "openFileDialog"} =>
           (files = prev /\ reported = <<>> /\ hostFiles = prev)
    /\ files # prev => (Reconciled \/ event.op = "remove")
    /\ Reconciled => files = Reconciliation

\* a dragLeave ended a hover over a widget that holds files, and left them alone
OnlyBatchesAndRemovalsChangeSelectionWitness ==
    /\ event.op = "dragLeave"
    /\ event.wasDragging
    /\ Len(prev) >= 1
    /\ files = prev
    /\ reported = <<>>

(* C12: with maxFiles >= 1, every operation acts on the selection the operation
   before it produced, also when no render came in between: a reconciliation
   yields reconcile(previous selection, batch) and a removal yields
   removeAt(previous selection, index) *)
OperationsActOnLatestSelection ==
    maxFiles >= 1 =>
        /\ Reconciled => files = Reconciliation
        /\ event.op = "remove" => files = SpliceOne(prev, event.index)

(* C13: a reconciliation with maxFiles < 1 is rejected: the selection is left as
   it was, nothing is reported, and no selection longer than maxFiles results *)
MaxFilesBelowOneIsRejected ==
    (Reconciled /\ maxFiles < 1) =>
        /\ files = prev
        /\ reported = <<>>
        /\ Len(files) <= maxFiles

(* C14: with maxFiles > 1 a reconciliation keeps the prior selection as a prefix
   of the new one, and leaves a selection that was already full unchanged *)
PriorSelectionIsKept ==
    (Reconciled /\ maxFiles > 1) =>
        /\ Len(prev) <= Len(files)
        /\ \A i \in 1..Len(prev) : files[i] = prev[i]
        /\ Len(prev) = maxFiles => files = prev

\* two accepted files were offered to a full selection of two, and dropped
PriorSelectionIsKeptWitness ==
    /\ Reconciled
    /\ maxFiles = 2
    /\ Len(prev) = 2
    /\ Len(Offered) = 2
    /\ Cardinality(AcceptedAt) = 2
    /\ \A i \in 1..2 : Offered[i] # prev[1] /\ Offered[i] # prev[2]
    /\ files = prev

(* C15: a batch that is not null and holds no accepted file empties the
   selection when maxFiles = 1, and onFilesSelected gets the empty list; with
   maxFiles > 1 it leaves the selection as it was *)
BatchWithoutAcceptedFile ==
    (Reconciled /\ AcceptedAt = {}) =>
        /\ maxFiles = 1 => (files = <<>> /\ reported = << <<>> >>)
        /\ maxFiles > 1 => files = prev

\* in single file mode a batch of one rejected file emptied a selection of one
BatchWithoutAcceptedFileWitness ==
    /\ Reconciled
    /\ maxFiles = 1
    /\ Len(prev) = 1
    /\ Len(Offered) = 1
    /\ AcceptedAt = {}
    /\ files = <<>>
    /\ reported = << <<>> >>

\* the filter of the probe with its patterns in the order f gives
Reordered(f) == [i \in DOMAIN probe.types |-> probe.types[f[i]]]

(* C16: the verdict of a filter on a file is the same for every order of its
   patterns, and a filter with patterns accepts a file iff one of its patterns
   alone does *)
FilterIgnoresPatternOrder ==
    probe.done =>
        /\ \A f \in Permutations(DOMAIN probe.types) :
               probe.accepted = Accepts(probe.name, probe.type, Reordered(f))
        /\ probe.types # <<>> =>
               (probe.accepted <=>
                    \E i \in DOMAIN probe.types :
                        Accepts(probe.name, probe.type, <<probe.types[i]>>))

\* a file was accepted by the second pattern of a filter whose first pattern
\* does not match it
FilterIgnoresPatternOrderWitness ==
    /\ probe.done
    /\ Len(probe.types) = 2
    /\ ~Accepts(probe.name, probe.type, <<probe.types[1]>>)
    /\ Accepts(probe.name, probe.type, <<probe.types[2]>>)
    /\ probe.accepted

(* C17: in App, whenever no file read is pending, a preview is shown only if the
   selection last reported is not empty and its first file is an image, and it
   is then the data of that first file *)
PreviewIsNeverStale ==
    (host = "App" /\ pendingReads = <<>> /\ imagePreview # NoPreview) =>
        /\ hostFiles # <<>>
        /\ StartsWith(FileType(hostFiles[1]), ImageSlash)
        /\ imagePreview = hostFiles[1]

(* C18: a null batch changes nothing and invokes no callback; a drop that
   carries one still resets the drag state to Idle *)
NullBatchIsNoOp ==
    (BatchEvent /\ event.selectedFiles.isNull) =>
        /\ files = prev
        /\ hostFiles = prev
        /\ reported = <<>>
        /\ event.op = "drop" => ~isDragging
        /\ event.op = "change" => isDragging = event.wasDragging

\* a drop with a null FileList ended a hover over a widget that holds a file
NullBatchIsNoOpWitness ==
    /\ event.op = "drop"
    /\ event.selectedFiles.isNull
    /\ event.wasDragging
    /\ ~isDragging
    /\ Len(prev) >= 1
    /\ files = prev
    /\ reported = <<>>

====
